---------------------------- MODULE Spec2Model ----------------------------
(***************************************************************************)
(* Model of fix-ts-errors.py: parse_errors reads the compiler log into     *)
(* diagnostic records, fix_unused_imports groups the TS6133 records by     *)
(* file and patches each file's lines in place, main runs one after the    *)
(* other.  Text is modelled character by character: a log line, a source   *)
(* line and a file's bytes are strings, and the regular expressions of the *)
(* script are the operators below.                                         *)
(***************************************************************************)
EXTENDS Integers, Sequences, FiniteSets, TLC

\* Longest log (number of lines) the initial states draw.
MaxLog == 2

-----------------------------------------------------------------------------
(* Strings *)

Char(s, i) == SubSeq(s, i, i)

\* The literal lit occurs in s at index i.
StartsAt(s, i, lit) ==
  /\ i >= 1
  /\ i + Len(lit) - 1 <= Len(s)
  /\ SubSeq(s, i, i + Len(lit) - 1) = lit

CharsOf(s) == {Char(s, i) : i \in 1..Len(s)}

DigitChars == "0123456789"

DigitSet == CharsOf(DigitChars)

\* \w of the re module, on the ASCII alphabet of the model.
WordSet ==
  CharsOf("abcdefghijklmnopqrstuvwxyzABCDEFGHIJKLMNOPQRSTUVWXYZ0123456789_")

\* \s of the re module and the characters str.strip() removes.
SpaceSet == {" ", "\t", "\n", "\r"}

IsDigit(c) == c \in DigitSet

\* Index of the last character of the longest run of digits starting at i
\* (i - 1 when there is none): \d+ followed by a non-digit literal.
RECURSIVE DigitsEnd(_, _)
DigitsEnd(s, i) ==
  IF i <= Len(s) /\ IsDigit(Char(s, i)) THEN DigitsEnd(s, i + 1) ELSE i - 1

RECURSIVE IndexScan(_, _, _, _)
IndexScan(s, lit, i, last) ==
  IF i > last THEN 0
  ELSE IF SubSeq(s, i, i + Len(lit) - 1) = lit THEN i
  ELSE IndexScan(s, lit, i + 1, last)

\* First index >= i at which lit occurs in s, 0 when there is none.
IndexFrom(s, lit, i) == IndexScan(s, lit, i, Len(s) - Len(lit) + 1)

\* Python's `lit in s`.
Contains(s, lit) == IndexFrom(s, lit, 1) # 0

DigitVal(c) == IndexFrom(DigitChars, c, 1) - 1

\* int(s) of a string of decimal digits.
RECURSIVE StrToInt(_)
StrToInt(s) ==
  IF Len(s) = 0 THEN 0
  ELSE 10 * StrToInt(SubSeq(s, 1, Len(s) - 1)) + DigitVal(Char(s, Len(s)))

\* str(n) of a natural number.
RECURSIVE IntToStr(_)
IntToStr(n) ==
  IF n < 10 THEN Char(DigitChars, n + 1)
  ELSE IntToStr(n \div 10) \o Char(DigitChars, (n % 10) + 1)

\* s.strip()
RECURSIVE LStrip(_)
LStrip(s) ==
  IF Len(s) > 0 /\ Char(s, 1) \in SpaceSet
  THEN LStrip(SubSeq(s, 2, Len(s))) ELSE s

RECURSIVE RStrip(_)
RStrip(s) ==
  IF Len(s) > 0 /\ Char(s, Len(s)) \in SpaceSet
  THEN RStrip(SubSeq(s, 1, Len(s) - 1)) ELSE s

Strip(s) == LStrip(RStrip(s))

\* s.split(','): the pieces between the commas, empty pieces included.
RECURSIVE Split(_)
Split(s) ==
  LET c == IndexFrom(s, ",", 1)
  IN IF c = 0 THEN <<s>>
     ELSE <<SubSeq(s, 1, c - 1)>> \o Split(SubSeq(s, c + 1, Len(s)))

\* sep.join(xs)
RECURSIVE Join(_, _)
Join(sep, xs) ==
  IF Len(xs) = 0 THEN ""
  ELSE IF Len(xs) = 1 THEN xs[1]
  ELSE xs[1] \o sep \o Join(sep, Tail(xs))

\* f.readlines(): the text cut after every newline, the newline kept.
RECURSIVE readlines(_)
readlines(text) ==
  IF Len(text) = 0 THEN <<>>
  ELSE LET n == IndexFrom(text, "\n", 1)
       IN IF n = 0 THEN <<text>>
          ELSE <<SubSeq(text, 1, n)>> \o readlines(SubSeq(text, n + 1, Len(text)))

\* f.writelines(lines): the strings one after the other, nothing added.
writelines(ls) == Join("", ls)

-----------------------------------------------------------------------------
(* parse_errors *)

NoMatch == [matched |-> FALSE]

\* The pattern after the lazy first group, tried with the "(" at index i:
\* \((\d+),(\d+)\): error (TS\d+): (.*)
ErrorTail(s, i) ==
  LET a == i + 1
      b == DigitsEnd(s, a)
      c == b + 2
      d == DigitsEnd(s, c)
      e == d + 1 + Len("): error TS")
      f == DigitsEnd(s, e)
      m == f + 1 + Len(": ")
      nl == IndexFrom(s, "\n", m)
      z == IF nl = 0 THEN Len(s) ELSE nl - 1
  IN IF /\ StartsAt(s, i, "(")
        /\ b >= a
        /\ StartsAt(s, b + 1, ",")
        /\ d >= c
        /\ StartsAt(s, d + 1, "): error TS")
        /\ f >= e
        /\ StartsAt(s, f + 1, ": ")
     THEN [matched |-> TRUE,
           filename |-> SubSeq(s, 1, i - 1),
           line_num |-> SubSeq(s, a, b),
           col |-> SubSeq(s, c, d),
           error_code |-> SubSeq(s, d + 4 + Len("error "), f),
           message |-> SubSeq(s, m, z)]
     ELSE NoMatch

\* re.match(r'(.*?)\((\d+),(\d+)\): error (TS\d+): (.*)', line): the first
\* group grows one character at a time ("." matches no newline) until the
\* rest of the pattern matches.
RECURSIVE ErrorMatchFrom(_, _)
ErrorMatchFrom(s, i) ==
  IF i > Len(s) THEN NoMatch
  ELSE LET tail == ErrorTail(s, i)
       IN IF tail.matched THEN tail
          ELSE IF Char(s, i) = "\n" THEN NoMatch
          ELSE ErrorMatchFrom(s, i + 1)

ErrorMatch(s) == ErrorMatchFrom(s, 1)

\* ErrorRecord with the two numbers taken from each other's group.
ErrorRecordSwapped(g) ==
  [file |-> g.filename,
   line |-> StrToInt(g.col),
   col |-> StrToInt(g.line_num),
   code |-> g.error_code,
   message |-> g.message]

\* The record appended for a matching line.
ErrorRecord(g) ==
  [file |-> g.filename,
   line |-> StrToInt(g.line_num),
   col |-> StrToInt(g.col),
   code |-> g.error_code,
   message |-> g.message]

-----------------------------------------------------------------------------
(* fix_unused_imports: the patterns *)

AllSpace(s, a, b) == \A k \in a..b : Char(s, k) \in SpaceSet

WordAt(s, i) == i >= 1 /\ i <= Len(s) /\ Char(s, i) \in WordSet

\* \b just before index p: a word character on exactly one side.
Boundary(s, p) == WordAt(s, p - 1) # WordAt(s, p)

\* re.search(r"'([^']+)' is declared but", message), tried from index i on:
\* a quote, at least one character that is no quote, the closing quote and
\* the literal.
RECURSIVE UnusedNameFrom(_, _)
UnusedNameFrom(s, i) ==
  LET o == IndexFrom(s, "'", i)
      q == IF o = 0 THEN 0 ELSE IndexFrom(s, "'", o + 1)
  IN IF o = 0 \/ q = 0 THEN NoMatch
     ELSE IF q > o + 1 /\ StartsAt(s, q, "' is declared but")
     THEN [matched |-> TRUE, var |-> SubSeq(s, o + 1, q - 1)]
     ELSE UnusedNameFrom(s, o + 1)

UnusedName(message) == UnusedNameFrom(message, 1)

\* re.search(r'\{([^}]+)\}', line) from index i on: the leftmost "{" that has
\* at least one character before the next "}".
RECURSIVE BraceFrom(_, _)
BraceFrom(s, i) ==
  LET o == IndexFrom(s, "{", i)
      c == IF o = 0 THEN 0 ELSE IndexFrom(s, "}", o + 1)
  IN IF o = 0 \/ c = 0 THEN NoMatch
     ELSE IF c > o + 1
     THEN [matched |-> TRUE, open |-> o, close |-> c,
           inner |-> SubSeq(s, o + 1, c - 1)]
     ELSE BraceFrom(s, o + 1)

\* re.sub(r'\{[^}]+\}', repl, line) from index i on: every match of the
\* pattern, left to right, is replaced (repl holds no backslash in the model,
\* so it is inserted as it is).
RECURSIVE SubBraces(_, _, _)
SubBraces(s, repl, i) ==
  LET m == BraceFrom(s, i)
  IN IF ~m.matched THEN SubSeq(s, i, Len(s))
     ELSE SubSeq(s, i, m.open - 1) \o repl \o SubBraces(s, repl, m.close + 1)

\* re.search(rf'import\s+{re.escape(var_name)}\s+from', line)
DefaultImportMatch(s, v) ==
  \E i \in 1..Len(s) :
    /\ StartsAt(s, i, "import")
    /\ \E p \in (i + 7)..Len(s) :
         /\ AllSpace(s, i + 6, p - 1)
         /\ StartsAt(s, p, v)
         /\ \E q \in (p + Len(v) + 1)..Len(s) :
              /\ AllSpace(s, p + Len(v), q - 1)
              /\ StartsAt(s, q, "from")

\* re.search(rf'\b(const|let|var)\s+({re.escape(var_name)})\b', line)
DeclMatch(s, v) ==
  \E kw \in {"const", "let", "var"} :
    \E i \in 1..Len(s) :
      /\ StartsAt(s, i, kw)
      /\ Boundary(s, i)
      /\ \E p \in (i + Len(kw) + 1)..Len(s) :
           /\ AllSpace(s, i + Len(kw), p - 1)
           /\ StartsAt(s, p, v)
           /\ Boundary(s, p + Len(v))

\* [i.strip() for i in import_match.group(1).split(',')]
RECURSIVE StripAll(_)
StripAll(xs) ==
  IF Len(xs) = 0 THEN <<>> ELSE <<Strip(Head(xs))>> \o StripAll(Tail(xs))

InList(x, xs) == \E k \in 1..Len(xs) : xs[k] = x

\* list.remove(x): the first occurrence goes.
RECURSIVE Remove(_, _)
Remove(xs, x) ==
  IF Len(xs) = 0 THEN <<>>
  ELSE IF Head(xs) = x THEN Tail(xs)
  ELSE <<Head(xs)>> \o Remove(Tail(xs), x)

\* The named-import branch: the line it leaves and whether an edit counts.
NamedImportEdit(line, var_name) ==
  LET import_match == BraceFrom(line, 1)
      imports == StripAll(Split(import_match.inner))
      rest == Remove(imports, var_name)
      new_imports == Join(", ", rest)
  IN IF import_match.matched /\ InList(var_name, imports)
     THEN IF Len(rest) > 0
          THEN [line |-> SubBraces(line, "{ " \o new_imports \o " }", 1),
                fixed |-> TRUE]
          ELSE [line |-> "", fixed |-> TRUE]
     ELSE [line |-> line, fixed |-> FALSE]

\* The body of the loop over one file's entries, for the line it addresses.
FixLine(line, var_name) ==
  IF Contains(line, "import")
  THEN IF Contains(line, "{") /\ Contains(line, "}")
       THEN NamedImportEdit(line, var_name)
       ELSE IF DefaultImportMatch(line, var_name)
            THEN [line |-> "", fixed |-> TRUE]
            ELSE [line |-> line, fixed |-> FALSE]
  ELSE IF DeclMatch(line, var_name)
       THEN IF Contains(line, "{") \/ Contains(line, "[")
            THEN [line |-> line, fixed |-> FALSE]
            ELSE [line |-> "// " \o line, fixed |-> TRUE]
       ELSE [line |-> line, fixed |-> FALSE]

\* lines[line_idx] of a Python list of n items, as a 1-based position: a
\* negative index counts from the end, 0 stands for IndexError.
PyIndex(n, line_idx) ==
  IF line_idx >= 0 /\ line_idx < n THEN line_idx + 1
  ELSE IF line_idx < 0 /\ line_idx + n >= 0 THEN line_idx + n + 1
  ELSE 0

\* SetLine as `del lines[line_idx]` for a blanked line.
SetLineDropBlank(ls, pos, new_line) ==
  IF new_line = ""
  THEN SubSeq(ls, 1, pos - 1) \o SubSeq(ls, pos + 1, Len(ls))
  ELSE [ls EXCEPT ![pos] = new_line]

\* lines[line_idx] = new_line
SetLine(ls, pos, new_line) == [ls EXCEPT ![pos] = new_line]

-----------------------------------------------------------------------------
(* fix_unused_imports: grouping and ordering *)

FileIndex(ftf, file) ==
  IF \E k \in 1..Len(ftf) : ftf[k].file = file
  THEN CHOOSE k \in 1..Len(ftf) : ftf[k].file = file
  ELSE 0

\* files_to_fix[error['file']].append({'line': ..., 'var': ...}) on a
\* dictionary that keeps its keys in the order they were first used.
AddEntry(ftf, file, item) ==
  LET k == FileIndex(ftf, file)
  IN IF k = 0 THEN Append(ftf, [file |-> file, vars |-> <<item>>])
     ELSE [ftf EXCEPT ![k].vars = Append(@, item)]

\* The first loop of fix_unused_imports over the records.
RECURSIVE CollectUnused(_, _)
CollectUnused(errs, ftf) ==
  IF Len(errs) = 0 THEN ftf
  ELSE LET error == Head(errs)
           match == UnusedName(error.message)
       IN CollectUnused(
            Tail(errs),
            IF error.code = "TS6133" /\ match.matched
            THEN AddEntry(ftf, error.file,
                          [line |-> error.line, var |-> match.var])
            ELSE ftf)

\* InsertDesc for a sort that is not stable: an entry goes before the
\* entries of its own line.
RECURSIVE InsertDescStrict(_, _, _)
InsertDescStrict(perm, k, vars) ==
  IF Len(perm) = 0 THEN <<k>>
  ELSE IF vars[Head(perm)].line > vars[k].line
  THEN <<Head(perm)>> \o InsertDescStrict(Tail(perm), k, vars)
  ELSE <<k>> \o perm

\* Position at which index k goes into the sorted index list perm: after
\* every entry with a line at least as big (equal lines keep their order).
RECURSIVE InsertDesc(_, _, _)
InsertDesc(perm, k, vars) ==
  IF Len(perm) = 0 THEN <<k>>
  ELSE IF vars[Head(perm)].line >= vars[k].line
  THEN <<Head(perm)>> \o InsertDesc(Tail(perm), k, vars)
  ELSE <<k>> \o perm

RECURSIVE SortPermFrom(_, _, _)
SortPermFrom(perm, k, vars) ==
  IF k > Len(vars) THEN perm
  ELSE SortPermFrom(InsertDesc(perm, k, vars), k + 1, vars)

\* unused_vars.sort(key=lambda x: x['line'], reverse=True), as the order in
\* which the collected entries come out: a stable sort, also when reversed.
SortPerm(vars) == SortPermFrom(<<>>, 1, vars)

RECURSIVE Permuted(_, _)
Permuted(vars, perm) ==
  IF Len(perm) = 0 THEN <<>>
  ELSE <<vars[Head(perm)]>> \o Permuted(vars, Tail(perm))

SortedVars(vars) == Permuted(vars, SortPerm(vars))

-----------------------------------------------------------------------------
(* The files of a run *)

\* One line of the compiler's output in the format the log holds.
Diag(file, line_num, col, code, message) ==
  file \o "(" \o line_num \o "," \o col \o "): error " \o code \o ": "
       \o message \o "\n"

NeverRead(name) == "'" \o name \o "' is declared but its value is never read."

\* The diagnostics the logs of the model are made of, as the fields each
\* line is written from.
DiagPool ==
  { <<"a.ts", "1", "10", "TS6133", NeverRead("Foo")>>,
    <<"a.ts", "1", "15", "TS6133", NeverRead("Bar")>>,
    <<"a.ts", "2", "8", "TS6133", NeverRead("React")>>,
    <<"a.ts", "3", "7", "TS6133", NeverRead("unusedVar")>>,
    <<"a.ts", "0", "1", "TS6133", NeverRead("unusedVar")>>,
    <<"a.ts", "9", "1", "TS6133", NeverRead("Foo")>>,
    <<"a.ts", "1", "1", "TS6133", "All imports in import declaration are unused.">>,
    <<"a.ts", "007", "03", "TS2304", "Cannot find name 'x'.">>,
    <<"b.ts", "1", "10", "TS6133", NeverRead("Foo")>>,
    <<"b.ts", "2", "9", "TS6133", NeverRead("a")>>,
    <<"b.ts", "3", "7", "TS6133", NeverRead("importData")>>,
    <<"c.ts", "0", "1", "TS6133", NeverRead("x")>>,
    <<"src/f(x).ts", "5", "1", "TS6133", NeverRead("Foo")>> }

DiagLine(d) == Diag(d[1], d[2], d[3], d[4], d[5])

\* Lines of the log that are no diagnostics.
OtherLines == { "Found 13 errors in 4 files.\n" }

LogPool == {DiagLine(d) : d \in DiagPool} \cup OtherLines

\* The source tree before the run: a.ts and b.ts hold code, c.ts is empty,
\* every other path does not exist.
SourceTree ==
  [f \in {"a.ts", "b.ts", "c.ts"} |->
     CASE f = "a.ts" ->
            "import { Foo, Bar } from 'baz';\n"
            \o "import React from 'react';\n"
            \o "const unusedVar = 5;\n"
       [] f = "b.ts" ->
            "import { Foo, Bar } from 'x'; import { Qux } from 'q';\n"
            \o "const { a, b } = obj;\n"
            \o "const importData = 5;\n"
       [] OTHER -> ""]

-----------------------------------------------------------------------------
(* State *)

VARIABLES
  log,            \* the lines of ERROR_FILE
  disk,           \* the bytes of every existing source file
  pc,             \* where main is
  lno,            \* parse_errors: the next line of the log
  errors,         \* parse_errors: the records so far; then main's errors
  files_to_fix,   \* fix_unused_imports: the entries of every file, in key order
  fidx,           \* the file the second loop is at
  unused_vars,    \* that file's entries, sorted
  eidx,           \* the entry the inner loop is at
  lines,          \* the file's lines as read
  modified,
  fixed_count,
  result,         \* what fix_unused_imports returned
  \* History, read by the properties only:
  disk0,          \* disk as the run found it
  src,            \* for every record, the log line it was parsed from
  order,          \* for every sorted entry, its position as collected
  applied,        \* the collected positions of this file's entries handled so far
  prev,           \* the buffer, the count and the entry of the last inner-loop pass
  opened,         \* files opened for reading
  wopened,        \* files opened for writing
  written,        \* files whose write completed
  caught,         \* files whose pass ended in the except clause
  fault,          \* the I/O failure each file met, if any
  edits,          \* counted edits made to each file's buffer
  logError        \* the log could not be opened or read

vars ==
  <<log, disk, pc, lno, errors, files_to_fix, fidx, unused_vars, eidx, lines,
    modified, fixed_count, result, disk0, src, order, applied, prev, opened,
    wopened, written, caught, fault, edits, logError>>

parseVars == <<lno, errors, src>>

fileVars == <<unused_vars, eidx, lines, modified, order, applied>>

Paths == DOMAIN SourceTree

NoPrev ==
  [valid |-> FALSE, lines |-> <<>>, count |-> 0, line |-> 0, var |-> "",
   raised |-> FALSE]

Logs == UNION {[1..n -> LogPool] : n \in 0..MaxLog}

Init ==
  /\ log \in Logs
  /\ disk = SourceTree
  /\ disk0 = SourceTree
  /\ pc = "parse"
  /\ lno = 1
  /\ errors = <<>>
  /\ src = <<>>
  /\ files_to_fix = <<>>
  /\ fidx = 1
  /\ unused_vars = <<>>
  /\ eidx = 1
  /\ lines = <<>>
  /\ modified = FALSE
  /\ fixed_count = 0
  /\ result = 0
  /\ order = <<>>
  /\ applied = <<>>
  /\ prev = NoPrev
  /\ opened = {}
  /\ wopened = {}
  /\ written = {}
  /\ caught = {}
  /\ fault = [f \in Paths |-> "none"]
  /\ edits = [f \in Paths |-> 0]
  /\ logError = FALSE

-----------------------------------------------------------------------------
(* main and parse_errors *)

\* LogExhausted for a loop that stops before the last line of the log.
LogExhaustedEarly == lno >= Len(log)

\* `for line in f` has no line left.
LogExhausted == lno > Len(log)

\* One pass of the loop of parse_errors.
ParseLine ==
  /\ pc = "parse"
  /\ ~LogExhausted
  /\ LET match == ErrorMatch(log[lno])
     IN /\ errors' = IF match.matched
                     THEN Append(errors, ErrorRecord(match)) ELSE errors
        /\ src' = IF match.matched THEN Append(src, lno) ELSE src
  /\ lno' = lno + 1
  /\ UNCHANGED <<log, disk, pc, files_to_fix, fidx, fileVars, fixed_count,
                 result, disk0, prev, opened, wopened, written, caught, fault,
                 edits, logError>>

\* open(ERROR_FILE) or a read of it raises: nothing catches it, main ends.
LogFails ==
  /\ pc = "parse"
  /\ lno = 1 \/ ~LogExhausted
  /\ pc' = "raised"
  /\ logError' = TRUE
  /\ UNCHANGED <<log, disk, parseVars, files_to_fix, fidx, fileVars,
                 fixed_count, result, disk0, prev, opened, wopened, written,
                 caught, fault, edits>>

\* parse_errors returns; main calls fix_unused_imports(errors), whose first
\* loop fills files_to_fix.
StartFix ==
  /\ pc = "parse"
  /\ LogExhausted
  /\ files_to_fix' = CollectUnused(errors, <<>>)
  /\ fidx' = 1
  /\ fixed_count' = 0
  /\ pc' = "files"
  /\ UNCHANGED <<log, disk, parseVars, fileVars, result, disk0, prev, opened,
                 wopened, written, caught, fault, edits, logError>>

-----------------------------------------------------------------------------
(* fix_unused_imports: the loop over the files *)

filepath == files_to_fix[fidx].file

\* AfterException without the except clause: the exception leaves main.
AfterExceptionPropagates == "raised"

\* Where control goes from the except clause: the next file of the loop.
AfterException == "files"

AtFile == pc = "files" /\ fidx <= Len(files_to_fix)

\* `if not full_path.exists(): continue`
SkipMissing ==
  /\ AtFile
  /\ filepath \notin DOMAIN disk
  /\ fidx' = fidx + 1
  /\ UNCHANGED <<log, disk, pc, parseVars, files_to_fix, fileVars,
                 fixed_count, result, disk0, prev, opened, wopened, written,
                 caught, fault, edits, logError>>

\* The file is read and its entries are sorted.
ReadFile ==
  /\ AtFile
  /\ filepath \in DOMAIN disk
  /\ opened' = opened \cup {filepath}
  /\ lines' = readlines(disk[filepath])
  /\ unused_vars' = SortedVars(files_to_fix[fidx].vars)
  /\ order' = SortPerm(files_to_fix[fidx].vars)
  /\ applied' = <<>>
  /\ eidx' = 1
  /\ modified' = FALSE
  /\ pc' = "entries"
  /\ UNCHANGED <<log, disk, parseVars, files_to_fix, fidx, fixed_count,
                 result, disk0, prev, wopened, written, caught, fault, edits,
                 logError>>

\* open(full_path, 'r') or readlines() raises.
ReadFails ==
  /\ AtFile
  /\ filepath \in DOMAIN disk
  /\ opened' = opened \cup {filepath}
  /\ fault' = [fault EXCEPT ![filepath] = "read"]
  /\ caught' = caught \cup {filepath}
  /\ pc' = AfterException
  /\ fidx' = fidx + 1
  /\ UNCHANGED <<log, disk, parseVars, files_to_fix, fileVars, fixed_count,
                 result, disk0, prev, wopened, written, edits, logError>>

\* One pass of the loop over the file's entries.
FixEntry ==
  /\ pc = "entries"
  /\ eidx <= Len(unused_vars)
  /\ LET item == unused_vars[eidx]
         line_idx == item.line - 1
         var_name == item.var
         pos == PyIndex(Len(lines), line_idx)
         fix == FixLine(lines[pos], var_name)
     IN /\ applied' = Append(applied, order[eidx])
        /\ IF line_idx >= Len(lines)
           THEN \* continue
                /\ eidx' = eidx + 1
                /\ prev' = [valid |-> TRUE, lines |-> lines,
                            count |-> fixed_count, line |-> item.line,
                            var |-> var_name, raised |-> FALSE]
                /\ UNCHANGED <<pc, fidx, lines, modified, fixed_count, caught,
                               edits>>
           ELSE IF pos = 0
           THEN \* lines[line_idx] raises IndexError
                /\ caught' = caught \cup {filepath}
                /\ pc' = AfterException
                /\ fidx' = fidx + 1
                /\ prev' = [valid |-> TRUE, lines |-> lines,
                            count |-> fixed_count, line |-> item.line,
                            var |-> var_name, raised |-> TRUE]
                /\ UNCHANGED <<eidx, lines, modified, fixed_count, edits>>
           ELSE /\ lines' = IF fix.fixed
                            THEN SetLine(lines, pos, fix.line) ELSE lines
                /\ modified' = (modified \/ fix.fixed)
                /\ fixed_count' = fixed_count + (IF fix.fixed THEN 1 ELSE 0)
                /\ edits' = [edits EXCEPT
                               ![filepath] = @ + (IF fix.fixed THEN 1 ELSE 0)]
                /\ eidx' = eidx + 1
                /\ prev' = [valid |-> TRUE, lines |-> lines,
                            count |-> fixed_count, line |-> item.line,
                            var |-> var_name, raised |-> FALSE]
                /\ UNCHANGED <<pc, fidx, caught>>
  /\ UNCHANGED <<log, disk, parseVars, files_to_fix, unused_vars, order,
                 result, disk0, opened, wopened, written, fault, logError>>

AtEnd == pc = "entries" /\ eidx > Len(unused_vars)

\* `if modified:` the buffer replaces the file.
WriteFile ==
  /\ AtEnd
  /\ modified
  /\ wopened' = wopened \cup {filepath}
  /\ written' = written \cup {filepath}
  /\ disk' = [disk EXCEPT ![filepath] = writelines(lines)]
  /\ pc' = "files"
  /\ fidx' = fidx + 1
  /\ UNCHANGED <<log, parseVars, files_to_fix, fileVars, fixed_count, result,
                 disk0, prev, opened, caught, fault, edits, logError>>

\* open(full_path, 'w') raises and the file is as it was, or the write
\* raises after open() has emptied the file.
WriteFails ==
  /\ AtEnd
  /\ modified
  /\ wopened' = wopened \cup {filepath}
  /\ \E kind \in {"wopen", "wwrite"} :
       /\ fault' = [fault EXCEPT ![filepath] = kind]
       /\ disk' = IF kind = "wopen" THEN disk
                  ELSE [disk EXCEPT ![filepath] = ""]
  /\ caught' = caught \cup {filepath}
  /\ pc' = AfterException
  /\ fidx' = fidx + 1
  /\ UNCHANGED <<log, parseVars, files_to_fix, fileVars, fixed_count, result,
                 disk0, prev, opened, written, edits, logError>>

\* Nothing was edited: the file is not opened again.
NoWrite ==
  /\ AtEnd
  /\ ~modified
  /\ pc' = "files"
  /\ fidx' = fidx + 1
  /\ UNCHANGED <<log, disk, parseVars, files_to_fix, fileVars, fixed_count,
                 result, disk0, prev, opened, wopened, written, caught, fault,
                 edits, logError>>

\* `return fixed_count`
Return ==
  /\ pc = "files"
  /\ fidx > Len(files_to_fix)
  /\ result' = fixed_count
  /\ pc' = "done"
  /\ UNCHANGED <<log, disk, parseVars, files_to_fix, fidx, fileVars,
                 fixed_count, disk0, prev, opened, wopened, written, caught,
                 fault, edits, logError>>

Next ==
  \/ ParseLine
  \/ LogFails
  \/ StartFix
  \/ SkipMissing
  \/ ReadFile
  \/ ReadFails
  \/ FixEntry
  \/ WriteFile
  \/ WriteFails
  \/ NoWrite
  \/ Return

Spec == Init /\ [][Next]_vars

-----------------------------------------------------------------------------
(* fix_unused_imports as a function of the records, the files and the I/O  *)
(* failures of a run: what the properties compare the run with.            *)

\* The loop over a file's sorted entries, from entry k on.
RECURSIVE ApplyEntries(_, _, _, _)
ApplyEntries(ls, svars, k, count) ==
  IF k > Len(svars) THEN [lines |-> ls, count |-> count, raised |-> FALSE]
  ELSE LET item == svars[k]
           pos == PyIndex(Len(ls), item.line - 1)
           fix == FixLine(ls[pos], item.var)
       IN IF item.line - 1 >= Len(ls)
          THEN ApplyEntries(ls, svars, k + 1, count)
          ELSE IF pos = 0
          THEN [lines |-> ls, count |-> count, raised |-> TRUE]
          ELSE IF fix.fixed
          THEN ApplyEntries(SetLine(ls, pos, fix.line), svars, k + 1, count + 1)
          ELSE ApplyEntries(ls, svars, k + 1, count)

\* The try block for one existing file: its bytes afterwards and the edits
\* counted, given the failure flt the file's I/O meets.
FileOutcome(text, vs, flt) ==
  LET pass == ApplyEntries(readlines(text), SortedVars(vs), 1, 0)
  IN IF flt = "read" THEN [text |-> text, count |-> 0]
     ELSE IF pass.raised \/ pass.count = 0 \/ flt = "wopen"
     THEN [text |-> text, count |-> pass.count]
     ELSE IF flt = "wwrite" THEN [text |-> "", count |-> pass.count]
     ELSE [text |-> writelines(pass.lines), count |-> pass.count]

\* The second loop of fix_unused_imports: for every key of files_to_fix, in
\* order, the file and what its pass leaves (a missing file is skipped).
RECURSIVE Outcomes(_, _, _)
Outcomes(ftf, tree, flt) ==
  IF Len(ftf) = 0 THEN <<>>
  ELSE LET f == Head(ftf).file
           out == FileOutcome(tree[f], Head(ftf).vars, flt[f])
       IN (IF f \in DOMAIN tree
           THEN <<[file |-> f, text |-> out.text, count |-> out.count]>>
           ELSE <<>>)
          \o Outcomes(Tail(ftf), tree, flt)

RECURSIVE SumCounts(_)
SumCounts(outs) ==
  IF Len(outs) = 0 THEN 0 ELSE Head(outs).count + SumCounts(Tail(outs))

\* The whole of fix_unused_imports(errs) on the source tree: the files
\* afterwards and the count returned.
RunOutcome(errs, tree, flt) ==
  LET outs == Outcomes(CollectUnused(errs, <<>>), tree, flt)
  IN [disk |-> [f \in DOMAIN tree |->
                  IF \E k \in 1..Len(outs) : outs[k].file = f
                  THEN outs[CHOOSE k \in 1..Len(outs) : outs[k].file = f].text
                  ELSE tree[f]],
      count |-> SumCounts(outs)]

-----------------------------------------------------------------------------
(* Properties *)

\* The inner loop has handled at least one entry of the file it is at, so
\* prev is the state before the last of them.
AfterEntry == pc = "entries" /\ eidx > 1 /\ prev.valid

\* The last entry addressed a line of the buffer by its 1-based number.
PrevInRange == prev.line >= 1 /\ prev.line <= Len(prev.lines)

PrevLine == prev.lines[prev.line]

\* The names between the first pair of braces of a line.
BraceNames(line) == StripAll(Split(BraceFrom(line, 1).inner))

IsNamedImport(line) ==
  Contains(line, "import") /\ Contains(line, "{") /\ Contains(line, "}")

\* A line with only its first brace group rewritten to the names given.
FirstGroupRewritten(line, names) ==
  LET m == BraceFrom(line, 1)
  IN SubSeq(line, 1, m.open - 1) \o "{ " \o Join(", ", names) \o " }"
       \o SubSeq(line, m.close + 1, Len(line))

\* C1: when the target line is a named import that lists the identifier
\* beside at least one other name, the line becomes the original text with
\* only its first brace group rewritten to the remaining names, every other
\* character (a later brace group too) unchanged, and the count grows by one.
C1_OnlyFirstGroupRewritten ==
  (/\ AfterEntry
   /\ PrevInRange
   /\ IsNamedImport(PrevLine)
   /\ BraceFrom(PrevLine, 1).matched
   /\ InList(prev.var, BraceNames(PrevLine))
   /\ Len(BraceNames(PrevLine)) > 1)
  => /\ lines = [prev.lines EXCEPT ![prev.line] =
                   FirstGroupRewritten(PrevLine,
                                       Remove(BraceNames(PrevLine), prev.var))]
     /\ fixed_count = prev.count + 1

\* C2: every target line that is no named import and no default import of
\* the identifier, declares the identifier with const, let or var as a whole
\* word and holds neither "{" nor "[", is commented out and counted once,
\* whatever else the line holds.
C2_DeclarationCommentedOut ==
  (/\ AfterEntry
   /\ PrevInRange
   /\ ~IsNamedImport(PrevLine)
   /\ ~(Contains(PrevLine, "import") /\ DefaultImportMatch(PrevLine, prev.var))
   /\ DeclMatch(PrevLine, prev.var)
   /\ ~Contains(PrevLine, "{")
   /\ ~Contains(PrevLine, "["))
  => /\ lines = [prev.lines EXCEPT ![prev.line] = "// " \o PrevLine]
     /\ fixed_count = prev.count + 1

\* C3: an entry whose line number is below 1 or above the number of lines of
\* the buffer is skipped: it raises nothing, changes no line and is not
\* counted.
C3_OutOfRangeSkipped ==
  (prev.valid /\ ~PrevInRange)
  => /\ ~prev.raised
     /\ AfterEntry => (lines = prev.lines /\ fixed_count = prev.count)

\* The files whose pass is over.
Finished == {k \in 1..Len(files_to_fix) : k < fidx \/ pc = "done"}

\* An entry in one of the cases that edit nothing: its line number is out of
\* range for the file, or its line is one the patterns leave alone.
NoEditCase(ls, e) ==
  \/ e.line < 1
  \/ e.line > Len(ls)
  \/ ~FixLine(ls[e.line], e.var).fixed

\* C4: a file is opened for writing exactly when a counted edit was made to
\* its buffer, and a file whose entries are all in the no-edit cases is never
\* opened for writing and keeps its bytes.
C4_WrittenIffEdited ==
  \A k \in Finished :
    LET f == files_to_fix[k].file
        vs == files_to_fix[k].vars
    IN f \in DOMAIN disk0 =>
         /\ f \in wopened <=> edits[f] > 0
         /\ (\A i \in 1..Len(vs) : NoEditCase(readlines(disk0[f]), vs[i]))
              => (f \notin wopened /\ disk[f] = disk0[f])

RECURSIVE SumEdits(_)
SumEdits(S) ==
  IF S = {} THEN 0
  ELSE LET f == CHOOSE x \in S : TRUE IN edits[f] + SumEdits(S \ {f})

\* C5: an exception in one file's pass ends that pass only: nothing but a
\* failure of the log leaves main by an exception, and when
\* fix_unused_imports returns, every existing file of the grouping has been
\* opened and holds what its own entries and its own I/O make of it, and the
\* count returned is the sum over the files.
C5_ExceptionIsLocal ==
  /\ pc = "raised" => logError
  /\ caught # {} => pc \in {"files", "entries", "done"}
  /\ pc = "done" =>
       /\ \A k \in 1..Len(files_to_fix) :
            LET f == files_to_fix[k].file
                out == FileOutcome(disk0[f], files_to_fix[k].vars, fault[f])
            IN f \in DOMAIN disk0 =>
                 /\ f \in opened
                 /\ disk[f] = out.text
                 /\ edits[f] = out.count
       /\ result = SumEdits(Paths)

\* Position of a file in the grouping.
KeyIndex(f) == FileIndex(files_to_fix, f)

\* Witness of C5: the run returned after the pass of one file had raised, and
\* a file later in the grouping was edited and written.
C5_Witness ==
  /\ pc = "done"
  /\ \E f \in caught : \E g \in written :
       /\ KeyIndex(f) < KeyIndex(g)
       /\ disk[g] # disk0[g]

\* C6: no source file is opened, and fix_unused_imports is not entered,
\* before the whole log is parsed; when the log fails, main ends by the
\* exception with no source file opened or changed.
C6_LogParsedFirst ==
  /\ (opened # {} \/ wopened # {} \/ pc \in {"files", "entries", "done"})
       => (lno > Len(log) /\ ~logError)
  /\ logError =>
       /\ pc = "raised"
       /\ opened = {}
       /\ wopened = {}
       /\ disk = disk0

\* Witness of C6: reading the log failed after a record for an existing
\* file had been parsed.
C6_Witness ==
  /\ logError
  /\ lno = 2
  /\ Len(errors) = 1
  /\ errors[1].file \in DOMAIN disk
  /\ errors[1].code = "TS6133"

\* The record written back in the format of a log line.
FormatRecord(r) ==
  Diag(r.file, IntToStr(r.line), IntToStr(r.col), r.code, r.message)

GrammarLines == {DiagLine(d) : d \in DiagPool}

PoolByLine == {<<DiagLine(d), d>> : d \in DiagPool}

\* The fields a line of the grammar was written from.
FieldsOf(l) == (CHOOSE lf \in PoolByLine : lf[1] = l)[2]

\* Records are in log order, and exactly the lines of the grammar read so far
\* have one.
RecordsFollowLog ==
  /\ Len(src) = Len(errors)
  /\ \A j, k \in 1..Len(src) : j < k => src[j] < src[k]
  /\ \A i \in 1..(lno - 1) :
       (log[i] \in GrammarLines) <=> (\E k \in 1..Len(src) : src[k] = i)

\* C7 as claimed: every record written back in the format reproduces its
\* line, leading zeros included.
C7_RoundTrip ==
  /\ RecordsFollowLog
  /\ \A k \in 1..Len(errors) : FormatRecord(errors[k]) = log[src[k]]

Canonical(digits) == IntToStr(StrToInt(digits)) = digits

\* C7 amended: the file, code and message of a record are the substrings of
\* its line and line and column are the values of its numerals, so writing
\* the record back gives the line with both numerals in canonical form: the
\* line itself when neither numeral has a leading zero.
C7_RoundTripOfValues ==
  /\ RecordsFollowLog
  /\ \A k \in 1..Len(errors) :
       LET d == FieldsOf(log[src[k]])
           r == errors[k]
       IN /\ r.file = d[1] /\ r.code = d[4] /\ r.message = d[5]
          /\ r.line = StrToInt(d[2]) /\ r.col = StrToInt(d[3])
          /\ FormatRecord(r)
               = Diag(d[1], IntToStr(r.line), IntToStr(r.col), d[4], d[5])
          /\ (Canonical(d[2]) /\ Canonical(d[3]))
               => FormatRecord(r) = log[src[k]]

\* Witness of C7: a record parsed from a line whose numerals have leading
\* zeros, after a line that is no diagnostic.
C7_Witness ==
  /\ Len(errors) = 1
  /\ src = <<2>>
  /\ ~Canonical(FieldsOf(log[2])[2])
  /\ errors[1].line = 7

Injective(p) == \A i, j \in DOMAIN p : p[i] = p[j] => i = j

\* The diagnostics of the log in every other order: what parse_errors returns for
\* the logs that hold the same diagnostics in another order.
Reorderings ==
  {[i \in 1..Len(errors) |-> errors[p[i]]] :
     p \in {q \in [1..Len(errors) -> 1..Len(errors)] : Injective(q)}}
  \ {errors}

C9_CountIsWrittenEdits ==
  pc = "done" =>
    /\ result = SumEdits(written)
    /\ \A f \in Paths :
         edits[f] <= (IF KeyIndex(f) = 0 THEN 0
                      ELSE Len(files_to_fix[KeyIndex(f)].vars))

NonBlank(l) == l # ""

\* The file whose pass has just ended with a completed write.
JustWritten ==
  /\ pc \in {"files", "done"}
  /\ fidx > 1
  /\ files_to_fix[fidx - 1].file \in written

OneSlotChanged ==
  /\ Len(lines) = Len(prev.lines)
  /\ Cardinality({i \in 1..Len(lines) : lines[i] # prev.lines[i]}) <= 1

\* C10 as claimed: the buffer keeps its length, and the file written back
\* has as many lines as the file read.
C10_LineCountKept ==
  /\ pc = "entries" => Len(lines) = Len(readlines(disk0[filepath]))
  /\ AfterEntry => OneSlotChanged
  /\ \A f \in written : Len(readlines(disk[f])) = Len(readlines(disk0[f]))

\* C10 amended: the buffer keeps its length and an entry changes one slot at
\* most, so the entries still to come address the lines they name; a blanked
\* slot writes no bytes, so the file written back holds the slots that are
\* not blank, in their order, and is shorter than the file read by the
\* number of blanked lines.
C10_SlotsKeptBlanksDropped ==
  /\ pc = "entries" => Len(lines) = Len(readlines(disk0[filepath]))
  /\ AfterEntry => OneSlotChanged
  /\ JustWritten =>
       LET f == files_to_fix[fidx - 1].file
       IN /\ Len(lines) = Len(readlines(disk0[f]))
          /\ readlines(disk[f]) = SelectSeq(lines, NonBlank)

\* Witness of C10: a file written back after one of its import lines was
\* blanked while another of its lines was left as it was.
C10_Witness ==
  /\ JustWritten
  /\ \E i, j \in 1..Len(lines) :
       /\ lines[i] = ""
       /\ lines[j] # ""
       /\ i < j
       /\ lines[j] = readlines(disk0[files_to_fix[fidx - 1].file])[j]

=============================================================================
